---- MODULE Spec2Model ----
(***************************************************************************)
(* Authentication flow of the e-commerce backend (backend/examples/auth):  *)
(* JWTService (token issue / verify / revoke, password hashing),           *)
(* UserRepository (users table in SQLite) and AuthenticationService.       *)
(*                                                                         *)
(* Strings are sequences of one-character strings, so that strip() and     *)
(* lower() are computed.  A message built by an f-string is the sequence   *)
(* of its pieces.  Time is the UTC clock in whole seconds.                 *)
(***************************************************************************)
EXTENDS Integers, Sequences, FiniteSets, TLC

VARIABLES users, sqlite_sequence, revoked_tokens, now, held, last, pc,
          revoke_called, products

vars ==
    <<users, sqlite_sequence, revoked_tokens, now, held, last, pc,
      revoke_called, products>>

(***************************************************************************)
(* Bounds of the model.                                                    *)
(***************************************************************************)
\* rows the users table is ever given (caps the AUTOINCREMENT counter)
MaxUsers == 2
\* hours the clock advances through
MaxHours == 1
\* size the revocation set grows to
MaxRevoked == 1
\* rows the products table is ever given
MaxProducts == 1
\* largest stock quantity a request carries
MaxStock == 2
\* status updates asked for in a row of one product
MaxStatusUpdates == 2

(***************************************************************************)
(* Program constants.                                                      *)
(***************************************************************************)
access_token_expire_hours == 1
MinPasswordLen == 8
SecondsPerHour == 3600

(***************************************************************************)
(* Python str: strip() and lower().                                        *)
(***************************************************************************)
LowerChar(c) == IF c = "A" THEN "a" ELSE IF c = "B" THEN "b" ELSE c

lower(s) == [i \in 1..Len(s) |-> LowerChar(s[i])]

RECURSIVE lstrip(_)
lstrip(s) == IF s # <<>> /\ Head(s) = " " THEN lstrip(Tail(s)) ELSE s

RECURSIVE rstrip(_)
rstrip(s) ==
    IF s # <<>> /\ s[Len(s)] = " " THEN rstrip(SubSeq(s, 1, Len(s) - 1)) ELSE s

strip(s) == rstrip(lstrip(s))

\* Python's "not s or not s.strip()"
IsBlank(s) == s = <<>> \/ strip(s) = <<>>

Rep(c, n) == [i \in 1..n |-> c]

(***************************************************************************)
(* Inputs.                                                                 *)
(***************************************************************************)
Emails == { <<"a">>, <<"A", " ">>, <<"b">>, <<" ">> }

Passwords == { Rep("p", 0), Rep("p", MinPasswordLen - 1),
               Rep("p", MinPasswordLen), Rep("q", MinPasswordLen) }

FirstNames == { <<>>, <<" ", "n">> }

LastNames == { <<" ">>, <<"l">> }

\* registrations: every email and password with good names, and one
\* registration for each name that is missing
Registrations ==
    { <<e, p, <<" ", "n">>, <<"l">>>> :
          e \in Emails, p \in { Rep("p", MinPasswordLen - 1),
                                Rep("p", MinPasswordLen) } }
        \cup { <<<<"a">>, Rep("p", MinPasswordLen), f, l>> :
                   f \in FirstNames, l \in LastNames }

\* calls of UserRepository.create_user: emails that differ in case only, a
\* second account, and one call for each blank argument
StoreCreates ==
    { <<e, <<"$2b$12$", "s1", "p">>, <<"n">>, <<"l">>>> :
          e \in { <<"a">>, <<"A">>, <<>> } }
        \cup { <<<<"a">>, <<"$2b$12$", "s1", "p">>, <<>>, <<"l">>>>,
               <<<<"a">>, <<"$2b$12$", "s1", "p">>, <<"n">>, <<" ">>>> }

Salts == { "s1" }

\* two concurrent callers of UserRepository.create_user
Procs == { "caller1", "caller2" }

(***************************************************************************)
(* Exceptions: a class name and the message pieces.                        *)
(***************************************************************************)
Exc(cls, msg) == [cls |-> cls, msg |-> msg]

NoExc == Exc("", <<>>)

\* the classes each class derives from (itself included), up to Exception
Bases(cls) ==
    CASE cls = "jwt.ExpiredSignatureError" ->
           {"jwt.ExpiredSignatureError", "jwt.InvalidTokenError", "Exception"}
      [] cls = "jwt.InvalidSignatureError" ->
           {"jwt.InvalidSignatureError", "jwt.DecodeError",
            "jwt.InvalidTokenError", "Exception"}
      [] cls = "jwt.DecodeError" ->
           {"jwt.DecodeError", "jwt.InvalidTokenError", "Exception"}
      [] cls = "InvalidTokenError" ->
           {"InvalidTokenError", "JWTServiceError", "Exception"}
      [] cls = "TokenExpiredError" ->
           {"TokenExpiredError", "JWTServiceError", "Exception"}
      [] cls = "JWTServiceError" -> {"JWTServiceError", "Exception"}
      [] cls = "UserAlreadyExistsError" ->
           {"UserAlreadyExistsError", "UserRepositoryError", "Exception"}
      [] cls = "UserRepositoryError" -> {"UserRepositoryError", "Exception"}
      [] cls = "sqlite3.IntegrityError" ->
           {"sqlite3.IntegrityError", "Exception"}
      [] cls = "ValueError" -> {"ValueError", "Exception"}
      [] OTHER -> {cls, "Exception"}

IsInstance(exc, cls) == cls \in Bases(exc.cls)

(***************************************************************************)
(* Password Hasher (bcrypt): the encoded hash embeds version, salt and     *)
(* digest; the digest is a one-way function of (salt, password), written   *)
(* here as the pair itself.                                                *)
(***************************************************************************)
hash_password(password, salt) == <<"$2b$12$", salt>> \o password

IsBcryptHash(h) == Len(h) >= 2 /\ h[1] = "$2b$12$"

\* result of JWTService.verify_password: a value or a raised JWTServiceError
verify_password(password, hashed_password) ==
    IF IsBcryptHash(hashed_password)
    THEN [ok |-> TRUE,
          val |-> (hashed_password
                       = hash_password(password, hashed_password[2])),
          exc |-> NoExc]
    ELSE [ok |-> FALSE, val |-> FALSE,
          exc |-> Exc("JWTServiceError",
                      <<"Failed to verify password: ", "Invalid salt">>)]

(***************************************************************************)
(* Results of a call: a returned value or a raised exception.              *)
(***************************************************************************)
Return(v) == [ok |-> TRUE, val |-> v, exc |-> NoExc]

Raise(none, e) == [ok |-> FALSE, val |-> none, exc |-> e]

(***************************************************************************)
(* Token Service (JWTService).  An encoded token is the three segments     *)
(* header.payload.signature; the signature names the key that made it.     *)
(***************************************************************************)
NoPayload ==
    [user_id |-> 0, email |-> <<>>, role |-> "", exp |-> 0, iat |-> 0,
     type |-> ""]

\* Optional[timedelta]: None, or a number of seconds
None_delta == [some |-> FALSE, secs |-> 0]

Seconds(n) == [some |-> TRUE, secs |-> n]

\* Python truth value of "expires_delta": None and timedelta(0) are false
Truthy(expires_delta) == expires_delta.some /\ expires_delta.secs # 0

jwt_encode(payload, key) == <<"HS256", payload, key>>

\* jwt.decode(token, secret_key, algorithms=["HS256"]) at instant t
jwt_decode(token, t) ==
    IF Len(token) # 3
    THEN Raise(NoPayload, Exc("jwt.DecodeError", <<"Not enough segments">>))
    ELSE IF token[3] # "secret_key"
    THEN Raise(NoPayload, Exc("jwt.InvalidSignatureError",
                              <<"Signature verification failed">>))
    ELSE IF token[2].exp <= t
    THEN Raise(NoPayload, Exc("jwt.ExpiredSignatureError",
                              <<"Signature has expired">>))
    ELSE Return(token[2])

\* JWTService.create_token; t_exp and t_iat are the two readings of utcnow()
create_token(user_id, email, role, expires_delta, t_exp, t_iat) ==
    LET expire == IF Truthy(expires_delta)
                  THEN t_exp + expires_delta.secs
                  ELSE t_exp + SecondsPerHour * access_token_expire_hours
        payload == [user_id |-> user_id, email |-> email, role |-> role,
                    exp |-> expire, iat |-> t_iat, type |-> "access"]
    IN  jwt_encode(payload, "secret_key")

\* verify_token_try without the look-up in revoked_tokens
verify_token_try_unchecked(token, revoked, t) ==
    LET d == jwt_decode(token, t)
    IN  IF ~d.ok THEN d
        ELSE IF d.val.type # "access"
        THEN Raise(NoPayload, Exc("InvalidTokenError", <<"Invalid token type">>))
        ELSE d

\* verify_token_try with the look-up in revoked_tokens after jwt.decode and
\* the type check
verify_token_try_late(token, revoked, t) ==
    LET d == jwt_decode(token, t)
    IN  IF ~d.ok THEN d
        ELSE IF d.val.type # "access"
        THEN Raise(NoPayload, Exc("InvalidTokenError", <<"Invalid token type">>))
        ELSE IF token \in revoked
        THEN Raise(NoPayload,
                   Exc("InvalidTokenError", <<"Token has been revoked">>))
        ELSE d

\* the try block of JWTService.verify_token
verify_token_try(token, revoked, t) ==
    IF token \in revoked
    THEN Raise(NoPayload, Exc("InvalidTokenError", <<"Token has been revoked">>))
    ELSE LET d == jwt_decode(token, t)
         IN  IF ~d.ok THEN d
             ELSE IF d.val.type # "access"
             THEN Raise(NoPayload,
                        Exc("InvalidTokenError", <<"Invalid token type">>))
             ELSE d

\* JWTService.verify_token with "except jwt.InvalidTokenError" placed before
\* "except jwt.ExpiredSignatureError"
JWTService_verify_token_swapped(token, revoked, t) ==
    LET r == verify_token_try(token, revoked, t)
    IN  IF r.ok THEN r
        ELSE IF IsInstance(r.exc, "jwt.InvalidTokenError")
        THEN Raise(NoPayload,
                   Exc("InvalidTokenError", <<"Invalid token: ">> \o r.exc.msg))
        ELSE IF IsInstance(r.exc, "jwt.ExpiredSignatureError")
        THEN Raise(NoPayload, Exc("TokenExpiredError", <<"Token has expired">>))
        ELSE Raise(NoPayload,
                   Exc("JWTServiceError",
                       <<"Token verification failed: ">> \o r.exc.msg))

\* JWTService.verify_token: the try block and its except clauses, in order
JWTService_verify_token(token, revoked, t) ==
    LET r == verify_token_try(token, revoked, t)
    IN  IF r.ok THEN r
        ELSE IF IsInstance(r.exc, "jwt.ExpiredSignatureError")
        THEN Raise(NoPayload, Exc("TokenExpiredError", <<"Token has expired">>))
        ELSE IF IsInstance(r.exc, "jwt.InvalidTokenError")
        THEN Raise(NoPayload,
                   Exc("InvalidTokenError", <<"Invalid token: ">> \o r.exc.msg))
        ELSE Raise(NoPayload,
                   Exc("JWTServiceError",
                       <<"Token verification failed: ">> \o r.exc.msg))

\* revoke_token taking a token that is in the set out of it
revoke_token_toggle(token, revoked) ==
    IF token \in revoked THEN revoked \ {token} ELSE revoked \cup {token}

\* revoke_token keeping the newest token only
revoke_token_newest(token, revoked) == {token}

\* JWTService.revoke_token: the new revocation set
revoke_token(token, revoked) == revoked \cup {token}

is_token_revoked(token, revoked) == token \in revoked

\* JWTToken.__post_init__
JWTToken(value) ==
    IF IsBlank(value)
    THEN Raise(<<>>, Exc("ValueError", <<"Token cannot be empty">>))
    ELSE Return(value)

(***************************************************************************)
(* User Store (UserRepository): the users table and its AUTOINCREMENT      *)
(* counter.  A row is a record; email is UNIQUE under SQLite's default     *)
(* (binary, case-sensitive) collation.                                     *)
(***************************************************************************)
NoUser ==
    [id |-> 0, email |-> <<>>, password_hash |-> <<>>, first_name |-> <<>>,
     last_name |-> <<>>, created_at |-> 0]

\* User.__post_init__: the ValueError it raises, or NoExc
User_post_init(u) ==
    IF IsBlank(u.email) THEN Exc("ValueError", <<"Email cannot be empty">>)
    ELSE IF IsBlank(u.first_name)
    THEN Exc("ValueError", <<"First name cannot be empty">>)
    ELSE IF IsBlank(u.last_name)
    THEN Exc("ValueError", <<"Last name cannot be empty">>)
    ELSE IF IsBlank(u.password_hash)
    THEN Exc("ValueError", <<"Password hash cannot be empty">>)
    ELSE NoExc

\* UserRepository._user_from_row
user_from_row(row) ==
    IF User_post_init(row) = NoExc THEN Return(row)
    ELSE Raise(NoUser,
               Exc("UserRepositoryError",
                   <<"Failed to convert row to User: ">>
                       \o User_post_init(row).msg))

\* SELECT ... WHERE email = ?
SelectByEmail(tbl, email) == { u \in tbl : u.email = email }

\* SELECT ... WHERE id = ?
SelectById(tbl, id) == { u \in tbl : u.id = id }

\* result of a repository call: value or exception, and the table after it
Store(r, tbl, seq) ==
    [ok |-> r.ok, val |-> r.val, exc |-> r.exc, users |-> tbl, seq |-> seq]

\* create_user up to the existence check: the exception raised, or NoExc
create_user_check(tbl, email) ==
    IF SelectByEmail(tbl, email) # {}
    THEN Exc("UserAlreadyExistsError",
             <<"User with email ">> \o email \o <<" already exists">>)
    ELSE NoExc

\* create_user from the INSERT on: the unique index, the commit, the User
\* built from the arguments, and the except clauses
create_user_insert(tbl, seq, email, password_hash, first_name, last_name, t) ==
    LET row == [id |-> seq + 1, email |-> email,
                password_hash |-> password_hash, first_name |-> first_name,
                last_name |-> last_name, created_at |-> t]
    IN  IF SelectByEmail(tbl, email) # {}
        THEN Store(Raise(NoUser,
                         Exc("UserRepositoryError",
                             <<"Failed to create user: ",
                               "UNIQUE constraint failed: users.email">>)),
                   tbl, seq)
        ELSE IF User_post_init(row) # NoExc
        THEN Store(Raise(NoUser,
                         Exc("UserRepositoryError",
                             <<"Failed to create user: ">>
                                 \o User_post_init(row).msg)),
                   tbl \cup {row}, seq + 1)
        ELSE Store(Return(row), tbl \cup {row}, seq + 1)

\* UserRepository.create_user run without interruption
create_user(tbl, seq, email, password_hash, first_name, last_name, t) ==
    IF create_user_check(tbl, email) # NoExc
    THEN Store(Raise(NoUser, create_user_check(tbl, email)), tbl, seq)
    ELSE create_user_insert(tbl, seq, email, password_hash, first_name,
                            last_name, t)

\* get_user_by_email returning a stored user whatever the email
get_user_by_email_any(tbl, email) ==
    IF tbl = {} THEN Return(NoUser)
    ELSE Return(CHOOSE u \in tbl : \A v \in tbl : u.id <= v.id)

\* UserRepository.get_user_by_email
get_user_by_email(tbl, email) ==
    IF SelectByEmail(tbl, email) = {} THEN Return(NoUser)
    ELSE LET r == user_from_row(CHOOSE u \in SelectByEmail(tbl, email) : TRUE)
         IN  IF r.ok THEN r
             ELSE Raise(NoUser,
                        Exc("UserRepositoryError",
                            <<"Failed to get user by email: ">> \o r.exc.msg))

\* UserRepository.get_user_by_id
get_user_by_id(tbl, id) ==
    IF SelectById(tbl, id) = {} THEN Return(NoUser)
    ELSE LET r == user_from_row(CHOOSE u \in SelectById(tbl, id) : TRUE)
         IN  IF r.ok THEN r
             ELSE Raise(NoUser,
                        Exc("UserRepositoryError",
                            <<"Failed to get user by ID: ">> \o r.exc.msg))

\* delete_user returning True whether or not a row was deleted
delete_user_always(tbl, seq, id) ==
    Store(Return(TRUE), tbl \ SelectById(tbl, id), seq)

\* UserRepository.delete_user
delete_user(tbl, seq, id) ==
    Store(Return(SelectById(tbl, id) # {}), tbl \ SelectById(tbl, id), seq)

\* the rows of the table in an order ORDER BY created_at DESC can give
\* (rows created at the same instant come in any order)
Orderings(tbl) ==
    { rows \in [1..Cardinality(tbl) -> tbl] :
          /\ \A i, j \in DOMAIN rows : i # j => rows[i] # rows[j]
          /\ \A i, j \in DOMAIN rows :
                 i < j => rows[i].created_at >= rows[j].created_at }

\* SQLite's LIMIT ? OFFSET ?: a negative OFFSET skips nothing, a negative
\* LIMIT does not limit
LimitOffset(rows, limit, offset) ==
    LET skip == IF offset < 0 THEN 0 ELSE offset
        rest == IF skip >= Len(rows) THEN 0 ELSE Len(rows) - skip
        take == IF limit < 0 \/ limit > rest THEN rest ELSE limit
    IN  SubSeq(rows, skip + 1, skip + take)

\* UserRepository.list_users; rows is the table in the order of the SELECT
list_users(rows, limit, offset) ==
    LET page == LimitOffset(rows, limit, offset)
        bad == { i \in DOMAIN page : ~user_from_row(page[i]).ok }
        first == CHOOSE i \in bad : \A j \in bad : i <= j
    IN  IF bad = {} THEN Return(page)
        ELSE Raise(<<>>,
                   Exc("UserRepositoryError",
                       <<"Failed to list users: ">>
                           \o user_from_row(page[first]).exc.msg))

\* UserRepository.count_users
count_users(tbl) == Return(Cardinality(tbl))

\* a dict entry: the key is missing, maps to None, or maps to a string
Absent == [st |-> "absent", v |-> <<>>]

IsNone == [st |-> "none", v |-> <<>>]

Some(v) == [st |-> "some", v |-> v]

\* a dict of updates; "other" stands for any key that names no column
NoUpdates ==
    [email |-> Absent, password_hash |-> Absent, first_name |-> Absent,
     last_name |-> Absent, other |-> Absent]

\* the keys of updates that update_user writes
update_fields(updates) ==
    { f \in {"email", "password_hash", "first_name", "last_name"} :
          updates[f].st = "some" }

\* the row after UPDATE users SET ... WHERE id = ?
UpdatedRow(row, updates) ==
    [f \in DOMAIN row |->
        IF f \in update_fields(updates) THEN updates[f].v ELSE row[f]]

\* UserRepository.update_user
update_user(tbl, seq, id, updates) ==
    LET old == CHOOSE u \in SelectById(tbl, id) : TRUE
        new == UpdatedRow(old, updates)
        tbl2 == (tbl \ {old}) \cup {new}
        g == get_user_by_id(tbl2, id)
    IN  IF SelectById(tbl, id) = {} THEN Store(Return(NoUser), tbl, seq)
        ELSE IF update_fields(updates) = {}
        THEN Store(Raise(NoUser,
                         Exc("UserRepositoryError",
                             <<"Failed to update user: ",
                               "No valid fields to update">>)),
                   tbl, seq)
        ELSE IF SelectByEmail(tbl \ {old}, new.email) # {}
        THEN Store(Raise(NoUser,
                         Exc("UserRepositoryError",
                             <<"Failed to update user: ",
                               "UNIQUE constraint failed: users.email">>)),
                   tbl, seq)
        ELSE IF ~g.ok
        THEN Store(Raise(NoUser,
                         Exc("UserRepositoryError",
                             <<"Failed to update user: ">> \o g.exc.msg)),
                   tbl2, seq)
        ELSE Store(g, tbl2, seq)

(***************************************************************************)
(* Authentication Service: every operation returns an outcome              *)
(* {success, message, ...payload}.                                         *)
(***************************************************************************)
NoSummary ==
    [id |-> 0, email |-> <<>>, first_name |-> <<>>, last_name |-> <<>>,
     full_name |-> <<>>]

UserSummary(u) ==
    [id |-> u.id, email |-> u.email, first_name |-> u.first_name,
     last_name |-> u.last_name,
     full_name |-> u.first_name \o <<" ">> \o u.last_name]

Outcome(success, message, user, token, payload) ==
    [success |-> success, message |-> message, user |-> user,
     token |-> token, token_payload |-> payload]

Failure(message) == Outcome(FALSE, message, NoSummary, <<>>, NoPayload)

\* the input validation of register_user: the ValueError raised, or NoExc
register_validate(email, password, first_name, last_name) ==
    IF IsBlank(email) THEN Exc("ValueError", <<"Email is required">>)
    ELSE IF password = <<>> \/ Len(password) < MinPasswordLen
    THEN Exc("ValueError", <<"Password must be at least 8 characters long">>)
    ELSE IF IsBlank(first_name)
    THEN Exc("ValueError", <<"First name is required">>)
    ELSE IF IsBlank(last_name)
    THEN Exc("ValueError", <<"Last name is required">>)
    ELSE NoExc

\* register_user storing email.strip() without lower()
register_user_cased(tbl, seq, email, password, first_name, last_name, salt, t) ==
    LET v == register_validate(email, password, first_name, last_name)
        c == create_user(tbl, seq, strip(email),
                         hash_password(password, salt), strip(first_name),
                         strip(last_name), t)
    IN  IF v # NoExc
        THEN [out |-> Failure(v.msg), users |-> tbl, seq |-> seq]
        ELSE IF c.ok
        THEN [out |-> Outcome(TRUE, <<"User registered successfully">>,
                              UserSummary(c.val), <<>>, NoPayload),
              users |-> c.users, seq |-> c.seq]
        ELSE IF IsInstance(c.exc, "UserAlreadyExistsError")
        THEN [out |-> Failure(<<"User with this email already exists">>),
              users |-> c.users, seq |-> c.seq]
        ELSE [out |-> Failure(<<"Registration failed: ">> \o c.exc.msg),
              users |-> c.users, seq |-> c.seq]

\* register_user without its input validation
register_user_unvalidated(tbl, seq, email, password, first_name, last_name, salt, t) ==
    LET c == create_user(tbl, seq, lower(strip(email)),
                         hash_password(password, salt), strip(first_name),
                         strip(last_name), t)
    IN  IF c.ok
        THEN [out |-> Outcome(TRUE, <<"User registered successfully">>,
                              UserSummary(c.val), <<>>, NoPayload),
              users |-> c.users, seq |-> c.seq]
        ELSE IF IsInstance(c.exc, "UserAlreadyExistsError")
        THEN [out |-> Failure(<<"User with this email already exists">>),
              users |-> c.users, seq |-> c.seq]
        ELSE [out |-> Failure(<<"Registration failed: ">> \o c.exc.msg),
              users |-> c.users, seq |-> c.seq]

\* AuthenticationService.register_user: outcome and the table after it
register_user(tbl, seq, email, password, first_name, last_name, salt, t) ==
    LET v == register_validate(email, password, first_name, last_name)
        c == create_user(tbl, seq, lower(strip(email)),
                         hash_password(password, salt), strip(first_name),
                         strip(last_name), t)
    IN  IF v # NoExc
        THEN [out |-> Failure(v.msg), users |-> tbl, seq |-> seq]
        ELSE IF c.ok
        THEN [out |-> Outcome(TRUE, <<"User registered successfully">>,
                              UserSummary(c.val), <<>>, NoPayload),
              users |-> c.users, seq |-> c.seq]
        ELSE IF IsInstance(c.exc, "UserAlreadyExistsError")
        THEN [out |-> Failure(<<"User with this email already exists">>),
              users |-> c.users, seq |-> c.seq]
        ELSE IF IsInstance(c.exc, "ValueError")
        THEN [out |-> Failure(c.exc.msg), users |-> c.users, seq |-> c.seq]
        ELSE [out |-> Failure(<<"Registration failed: ">> \o c.exc.msg),
              users |-> c.users, seq |-> c.seq]

\* register_user from the return of create_user on: the outcome for what
\* create_user returned or raised
register_outcome(c) ==
    IF c.ok
    THEN Outcome(TRUE, <<"User registered successfully">>, UserSummary(c.val),
                 <<>>, NoPayload)
    ELSE IF IsInstance(c.exc, "UserAlreadyExistsError")
    THEN Failure(<<"User with this email already exists">>)
    ELSE IF IsInstance(c.exc, "ValueError") THEN Failure(c.exc.msg)
    ELSE Failure(<<"Registration failed: ">> \o c.exc.msg)

\* login_user looking the user up by email.strip() without lower()
login_user_cased(tbl, email, password, t) ==
    LET g == get_user_by_email(tbl, strip(email))
        pw == verify_password(password, g.val.password_hash)
    IN  IF IsBlank(email) THEN Failure(<<"Email is required">>)
        ELSE IF password = <<>> THEN Failure(<<"Password is required">>)
        ELSE IF ~g.ok THEN Failure(<<"Login failed: ">> \o g.exc.msg)
        ELSE IF g.val = NoUser THEN Failure(<<"Invalid email or password">>)
        ELSE IF ~pw.ok THEN Failure(<<"Login failed: ">> \o pw.exc.msg)
        ELSE IF ~pw.val THEN Failure(<<"Invalid email or password">>)
        ELSE Outcome(TRUE, <<"Login successful">>, UserSummary(g.val),
                     create_token(g.val.id, g.val.email, "customer",
                                  None_delta, t, t),
                     NoPayload)

\* login_user telling a missing account from a wrong password
login_user_telling(tbl, email, password, t) ==
    LET g == get_user_by_email(tbl, lower(strip(email)))
        pw == verify_password(password, g.val.password_hash)
    IN  IF IsBlank(email) THEN Failure(<<"Email is required">>)
        ELSE IF password = <<>> THEN Failure(<<"Password is required">>)
        ELSE IF ~g.ok THEN Failure(<<"Login failed: ">> \o g.exc.msg)
        ELSE IF g.val = NoUser THEN Failure(<<"User not found">>)
        ELSE IF ~pw.ok THEN Failure(<<"Login failed: ">> \o pw.exc.msg)
        ELSE IF ~pw.val THEN Failure(<<"Invalid email or password">>)
        ELSE Outcome(TRUE, <<"Login successful">>, UserSummary(g.val),
                     create_token(g.val.id, g.val.email, "customer",
                                  None_delta, t, t),
                     NoPayload)

\* AuthenticationService.login_user
login_user(tbl, email, password, t) ==
    LET g == get_user_by_email(tbl, lower(strip(email)))
        pw == verify_password(password, g.val.password_hash)
    IN  IF IsBlank(email) THEN Failure(<<"Email is required">>)
        ELSE IF password = <<>> THEN Failure(<<"Password is required">>)
        ELSE IF ~g.ok THEN Failure(<<"Login failed: ">> \o g.exc.msg)
        ELSE IF g.val = NoUser THEN Failure(<<"Invalid email or password">>)
        ELSE IF ~pw.ok THEN Failure(<<"Login failed: ">> \o pw.exc.msg)
        ELSE IF ~pw.val THEN Failure(<<"Invalid email or password">>)
        ELSE Outcome(TRUE, <<"Login successful">>, UserSummary(g.val),
                     create_token(g.val.id, g.val.email, "customer",
                                  None_delta, t, t),
                     NoPayload)

\* AuthenticationService.verify_token trusting the payload, with no look-up
\* of the user
AuthenticationService_verify_token_trusting(tbl, revoked, token, t) ==
    LET j == JWTToken(token)
        v == JWTService_verify_token(token, revoked, t)
    IN  IF ~j.ok
        THEN Failure(<<"Token verification failed: ">> \o j.exc.msg)
        ELSE IF ~v.ok
        THEN IF IsInstance(v.exc, "InvalidTokenError")
                \/ IsInstance(v.exc, "TokenExpiredError")
             THEN Failure(<<"Invalid token: ">> \o v.exc.msg)
             ELSE Failure(<<"Token verification failed: ">> \o v.exc.msg)
        ELSE Outcome(TRUE, <<"Token is valid">>,
                     [NoSummary EXCEPT !.id = v.val.user_id,
                                       !.email = v.val.email],
                     <<>>, v.val)

\* AuthenticationService.verify_token
AuthenticationService_verify_token(tbl, revoked, token, t) ==
    LET j == JWTToken(token)
        v == JWTService_verify_token(token, revoked, t)
        g == get_user_by_id(tbl, v.val.user_id)
    IN  IF ~j.ok
        THEN Failure(<<"Token verification failed: ">> \o j.exc.msg)
        ELSE IF ~v.ok
        THEN IF IsInstance(v.exc, "InvalidTokenError")
                \/ IsInstance(v.exc, "TokenExpiredError")
             THEN Failure(<<"Invalid token: ">> \o v.exc.msg)
             ELSE Failure(<<"Token verification failed: ">> \o v.exc.msg)
        ELSE IF ~g.ok
        THEN Failure(<<"Token verification failed: ">> \o g.exc.msg)
        ELSE IF g.val = NoUser THEN Failure(<<"User not found">>)
        ELSE Outcome(TRUE, <<"Token is valid">>, UserSummary(g.val), <<>>,
                     v.val)

\* datetime.isoformat(): the text of an instant
isoformat(t) == <<"isoformat", t>>

\* AuthenticationService.get_user_profile: the dict it returns, with the
\* keys that dict has
get_user_profile(tbl, user_id) ==
    LET g == get_user_by_id(tbl, user_id)
    IN  IF ~g.ok
        THEN [success |-> FALSE,
              message |-> <<"Failed to get user profile: ">> \o g.exc.msg]
        ELSE IF g.val = NoUser
        THEN [success |-> FALSE, message |-> <<"User not found">>]
        ELSE [success |-> TRUE,
              user |-> [id |-> g.val.id, email |-> g.val.email,
                        first_name |-> g.val.first_name,
                        last_name |-> g.val.last_name,
                        full_name |-> g.val.first_name \o <<" ">>
                                          \o g.val.last_name,
                        created_at |-> isoformat(g.val.created_at)]]

\* the dict comprehension of update_user_profile: the entries of updates
\* whose key is first_name or last_name and whose value is not None
filtered_updates(updates) ==
    [f \in DOMAIN updates |->
        IF f \in {"first_name", "last_name"} /\ updates[f].st = "some"
        THEN updates[f] ELSE Absent]

\* update_user_profile with email in its allowed_fields
update_user_profile_wide(tbl, seq, user_id, updates) ==
    LET wide == [f \in DOMAIN updates |->
                    IF f \in {"email", "first_name", "last_name"}
                          /\ updates[f].st = "some"
                    THEN updates[f] ELSE Absent]
        u == update_user(tbl, seq, user_id, wide)
    IN  IF wide = NoUpdates
        THEN [out |-> Failure(<<"No valid fields to update">>), users |-> tbl]
        ELSE IF ~u.ok
        THEN [out |-> Failure(<<"Failed to update profile: ">> \o u.exc.msg),
              users |-> u.users]
        ELSE IF u.val = NoUser
        THEN [out |-> Failure(<<"User not found">>), users |-> u.users]
        ELSE [out |-> Outcome(TRUE, <<"Profile updated successfully">>,
                              UserSummary(u.val), <<>>, NoPayload),
              users |-> u.users]

\* update_user_profile handing updates, not filtered_updates, to update_user
update_user_profile_unfiltered(tbl, seq, user_id, updates) ==
    LET u == update_user(tbl, seq, user_id, updates)
    IN  IF filtered_updates(updates) = NoUpdates
        THEN [out |-> Failure(<<"No valid fields to update">>), users |-> tbl]
        ELSE IF ~u.ok
        THEN [out |-> Failure(<<"Failed to update profile: ">> \o u.exc.msg),
              users |-> u.users]
        ELSE IF u.val = NoUser
        THEN [out |-> Failure(<<"User not found">>), users |-> u.users]
        ELSE [out |-> Outcome(TRUE, <<"Profile updated successfully">>,
                              UserSummary(u.val), <<>>, NoPayload),
              users |-> u.users]

\* AuthenticationService.update_user_profile: outcome and the table after it
update_user_profile(tbl, seq, user_id, updates) ==
    LET u == update_user(tbl, seq, user_id, filtered_updates(updates))
    IN  IF filtered_updates(updates) = NoUpdates
        THEN [out |-> Failure(<<"No valid fields to update">>), users |-> tbl]
        ELSE IF ~u.ok
        THEN [out |-> Failure(<<"Failed to update profile: ">> \o u.exc.msg),
              users |-> u.users]
        ELSE IF u.val = NoUser
        THEN [out |-> Failure(<<"User not found">>), users |-> u.users]
        ELSE [out |-> Outcome(TRUE, <<"Profile updated successfully">>,
                              UserSummary(u.val), <<>>, NoPayload),
              users |-> u.users]

(***************************************************************************)
(* State.  users and sqlite_sequence are the database file;                *)
(* revoked_tokens is JWTService.revoked_tokens; now is the UTC clock;      *)
(* held is the token a client was last given; last is the last call and    *)
(* what it returned; pc is the position of each concurrent caller of       *)
(* UserRepository.create_user; revoke_called records the tokens            *)
(* revoke_token was called with.                                           *)
(***************************************************************************)
NoToken == <<>>

NoHeld == [tok |-> NoToken, delta |-> None_delta, by |-> ""]

Idle == [at |-> "idle", email |-> <<>>, password_hash |-> <<>>,
         first_name |-> <<>>, last_name |-> <<>>]

Init ==
    /\ users = {}
    /\ sqlite_sequence = 0
    /\ revoked_tokens = {}
    /\ now = 0
    /\ held = NoHeld
    /\ last = [op |-> "init"]
    /\ pc = [p \in Procs |-> Idle]
    /\ revoke_called = {}
    /\ products = {}

\* the held token signed with another key
BadSignature(token) == jwt_encode(token[2], "other_key")

\* the held token's payload typed "refresh", signed with the same secret
RefreshTyped(token) ==
    jwt_encode([token[2] EXCEPT !.type = "refresh"], "secret_key")

\* token strings a client can present: the token it holds and the two
\* variants of it, a string that is no token, and the empty string
Presentable ==
    IF held.tok = NoToken THEN { <<"garbage">>, <<>> }
    ELSE { held.tok, BadSignature(held.tok), RefreshTyped(held.tok),
           <<"garbage">>, <<>> }

(***************************************************************************)
(* Operations of the Authentication Service.                               *)
(***************************************************************************)
Register(email, password, first_name, last_name) ==
    \E salt \in Salts :
        LET r == register_user(users, sqlite_sequence, email, password,
                               first_name, last_name, salt, now)
        IN  /\ r.seq <= MaxUsers
            /\ users' = r.users
            /\ sqlite_sequence' = r.seq
            /\ last' = [op |-> "register", email |-> email,
                        password |-> password, first_name |-> first_name,
                        last_name |-> last_name, out |-> r.out]
            /\ UNCHANGED <<revoked_tokens, now, held, pc, revoke_called, products>>

Login(email, password) ==
    LET out == login_user(users, email, password, now)
    IN  /\ last' = [op |-> "login", email |-> email, password |-> password,
                    out |-> out]
        /\ held' = IF out.success
                   THEN [tok |-> out.token, delta |-> None_delta,
                         by |-> "login"]
                   ELSE held
        /\ UNCHANGED <<users, sqlite_sequence, revoked_tokens, now, pc,
                       revoke_called, products>>

AuthVerify(token) ==
    /\ last' = [op |-> "auth_verify", token |-> token,
                out |-> AuthenticationService_verify_token(
                            users, revoked_tokens, token, now)]
    /\ UNCHANGED <<users, sqlite_sequence, revoked_tokens, now, held, pc,
                   revoke_called, products>>

(***************************************************************************)
(* Operations of the Token Service.                                        *)
(***************************************************************************)
CreateToken(user_id, email, role, expires_delta) ==
    LET token == create_token(user_id, email, role, expires_delta, now, now)
    IN  /\ held' = [tok |-> token, delta |-> expires_delta,
                    by |-> "create_token"]
        /\ last' = [op |-> "create_token", delta |-> expires_delta,
                    res |-> Return(token)]
        /\ UNCHANGED <<users, sqlite_sequence, revoked_tokens, now, pc,
                       revoke_called, products>>

\* VerifyToken for a token that can be used once: verifying it revokes it
VerifyToken_once(token) ==
    /\ JWTToken(token).ok
    /\ Cardinality(revoke_token(token, revoked_tokens)) <= MaxRevoked
    /\ last' = [op |-> "verify_token", token |-> token,
                res |-> JWTService_verify_token(token, revoked_tokens, now)]
    /\ revoked_tokens' = revoke_token(token, revoked_tokens)
    /\ UNCHANGED <<users, sqlite_sequence, now, held, pc, revoke_called, products>>

VerifyToken(token) ==
    /\ JWTToken(token).ok
    /\ last' = [op |-> "verify_token", token |-> token,
                res |-> JWTService_verify_token(token, revoked_tokens, now)]
    /\ UNCHANGED <<users, sqlite_sequence, revoked_tokens, now, held, pc,
                   revoke_called, products>>

Revoke(token) ==
    /\ JWTToken(token).ok
    /\ Cardinality(revoke_token(token, revoked_tokens)) <= MaxRevoked
    /\ revoked_tokens' = revoke_token(token, revoked_tokens)
    /\ revoke_called' = revoke_called \cup {token}
    /\ last' = [op |-> "revoke_token", token |-> token,
                before |-> revoked_tokens, res |-> Return(TRUE)]
    /\ UNCHANGED <<users, sqlite_sequence, now, held, pc, products>>

IsRevoked(token) ==
    /\ JWTToken(token).ok
    /\ last' = [op |-> "is_token_revoked", token |-> token,
                res |-> Return(is_token_revoked(token, revoked_tokens))]
    /\ UNCHANGED <<users, sqlite_sequence, revoked_tokens, now, held, pc,
                   revoke_called, products>>

(***************************************************************************)
(* Administrative deletion of a user, and the passage of time.             *)
(***************************************************************************)
DeleteUser(id) ==
    LET r == delete_user(users, sqlite_sequence, id)
    IN  /\ users' = r.users
        /\ last' = [op |-> "delete_user", id |-> id, res |-> r]
        /\ UNCHANGED <<sqlite_sequence, revoked_tokens, now, held, pc,
                       revoke_called, products>>

Tick ==
    /\ now + SecondsPerHour <= MaxHours * SecondsPerHour
    /\ now' = now + SecondsPerHour
    /\ UNCHANGED <<users, sqlite_sequence, revoked_tokens, held, last, pc,
                   revoke_called, products>>

Ids == 1..MaxUsers

\* expires_delta arguments: none, zero, already expired, two hours
Deltas ==
    { None_delta, Seconds(0), Seconds(-1), Seconds(2 * SecondsPerHour) }

(***************************************************************************)
(* Spec: the Authentication Service over its Token Service and User Store. *)
(***************************************************************************)
Next ==
    \/ \E r \in Registrations : Register(r[1], r[2], r[3], r[4])
    \/ \E e \in Emails, p \in Passwords : Login(e, p)
    \/ \E t \in Presentable : AuthVerify(t)
    \/ \E id \in Ids : DeleteUser(id)
    \/ Tick

Spec == Init /\ [][Next]_vars

(***************************************************************************)
(* SpecRevocation: the same, with tokens revoked through the service's     *)
(* JWTService.                                                             *)
(***************************************************************************)
NextRevocation ==
    \/ \E r \in Registrations : Register(r[1], r[2], r[3], r[4])
    \/ \E e \in Emails, p \in Passwords : Login(e, p)
    \/ \E t \in Presentable : AuthVerify(t)
    \/ \E id \in Ids : DeleteUser(id)
    \/ Revoke(held.tok)
    \/ Tick

SpecRevocation == Init /\ [][NextRevocation]_vars

(***************************************************************************)
(* SpecToken: one JWTService instance and its callers.                     *)
(***************************************************************************)
NextToken ==
    \/ \E d \in Deltas : CreateToken(1, <<"a">>, "customer", d)
    \/ \E t \in Presentable : VerifyToken(t)
    \/ \E t \in Presentable : Revoke(t)
    \/ \E t \in Presentable : IsRevoked(t)
    \/ Tick

SpecToken == Init /\ [][NextToken]_vars

(***************************************************************************)
(* Operations of the User Store.  create_user is two steps for its         *)
(* callers in other threads or processes: the SELECT that looks for the    *)
(* email, then the INSERT with the commit.                                 *)
(***************************************************************************)
CreateUserCheck(p, email, password_hash, first_name, last_name) ==
    /\ pc[p].at = "idle"
    /\ IF create_user_check(users, email) # NoExc
       THEN /\ last' = [op |-> "create_user", proc |-> p, email |-> email,
                        first_name |-> first_name, last_name |-> last_name,
                        before |-> users, unique_violation |-> FALSE,
                        res |-> Raise(NoUser, create_user_check(users, email))]
            /\ pc' = pc
       ELSE /\ pc' = [pc EXCEPT ![p] =
                         [at |-> "insert", email |-> email,
                          password_hash |-> password_hash,
                          first_name |-> first_name, last_name |-> last_name]]
            /\ last' = last
    /\ UNCHANGED <<users, sqlite_sequence, revoked_tokens, now, held,
                   revoke_called, products>>

CreateUserInsert(p) ==
    /\ pc[p].at = "insert"
    /\ LET r == create_user_insert(users, sqlite_sequence, pc[p].email,
                                   pc[p].password_hash, pc[p].first_name,
                                   pc[p].last_name, now)
       IN  /\ r.seq <= MaxUsers
           /\ users' = r.users
           /\ sqlite_sequence' = r.seq
           /\ last' = [op |-> "create_user", proc |-> p,
                       email |-> pc[p].email,
                       first_name |-> pc[p].first_name,
                       last_name |-> pc[p].last_name, before |-> users,
                       unique_violation |->
                           (SelectByEmail(users, pc[p].email) # {}),
                       res |-> [ok |-> r.ok, val |-> r.val, exc |-> r.exc]]
    /\ pc' = [pc EXCEPT ![p] = Idle]
    /\ UNCHANGED <<revoked_tokens, now, held, revoke_called, products>>

UpdateUser(id, updates) ==
    LET r == update_user(users, sqlite_sequence, id, updates)
    IN  /\ users' = r.users
        /\ last' = [op |-> "update_user", id |-> id, updates |-> updates,
                    before |-> users,
                    res |-> [ok |-> r.ok, val |-> r.val, exc |-> r.exc]]
        /\ UNCHANGED <<sqlite_sequence, revoked_tokens, now, held, pc,
                       revoke_called, products>>

\* dicts passed to update_user
StoreUpdates ==
    { NoUpdates,
      [NoUpdates EXCEPT !.email = Some(<<"A">>)],
      [NoUpdates EXCEPT !.first_name = Some(<<"m">>)],
      [NoUpdates EXCEPT !.first_name = IsNone],
      [NoUpdates EXCEPT !.other = Some(<<"x">>)] }

(***************************************************************************)
(* SpecStore: one users table and the concurrent callers of its            *)
(* UserRepository.                                                         *)
(***************************************************************************)
NextStore ==
    \/ \E p \in Procs, c \in StoreCreates :
           CreateUserCheck(p, c[1], c[2], c[3], c[4])
    \/ \E p \in Procs : CreateUserInsert(p)
    \/ \E id \in Ids, u \in StoreUpdates : UpdateUser(id, u)
    \/ \E id \in Ids : DeleteUser(id)

SpecStore == Init /\ [][NextStore]_vars

(***************************************************************************)
(* SpecProfile: registered users and the profile operations of the         *)
(* Authentication Service.                                                 *)
(***************************************************************************)
UpdateProfile(user_id, updates) ==
    LET r == update_user_profile(users, sqlite_sequence, user_id, updates)
    IN  /\ users' = r.users
        /\ last' = [op |-> "update_profile", user_id |-> user_id,
                    updates |-> updates, before |-> users, out |-> r.out]
        /\ UNCHANGED <<sqlite_sequence, revoked_tokens, now, held, pc,
                       revoke_called, products>>

GetProfile(user_id) ==
    /\ last' = [op |-> "get_profile", user_id |-> user_id,
                out |-> get_user_profile(users, user_id)]
    /\ UNCHANGED <<users, sqlite_sequence, revoked_tokens, now, held, pc,
                   revoke_called, products>>

\* dicts passed to update_user_profile: empty, keys outside the allow-list
\* only, allowed keys, None, a blank name, and mixtures
ProfileUpdates ==
    { NoUpdates,
      [NoUpdates EXCEPT !.other = Some(<<"x">>)],
      [NoUpdates EXCEPT !.email = Some(<<"b">>)],
      [NoUpdates EXCEPT !.email = Some(<<"c">>),
                        !.password_hash = Some(<<"h">>)],
      [NoUpdates EXCEPT !.first_name = Some(<<"m">>)],
      [NoUpdates EXCEPT !.first_name = IsNone],
      [NoUpdates EXCEPT !.last_name = Some(<<>>)],
      [NoUpdates EXCEPT !.email = Some(<<"c">>),
                        !.password_hash = Some(<<"h">>),
                        !.last_name = Some(<<"k">>),
                        !.other = Some(<<"x">>)] }

NextProfile ==
    \/ \E r \in Registrations : Register(r[1], r[2], r[3], r[4])
    \/ \E id \in Ids, u \in ProfileUpdates : UpdateProfile(id, u)
    \/ \E id \in Ids : GetProfile(id)
    \/ \E id \in Ids : DeleteUser(id)

SpecProfile == Init /\ [][NextProfile]_vars

(***************************************************************************)
(* SpecListing: one caller of the UserRepository at a time, creating,      *)
(* deleting, listing and counting users while time passes.                 *)
(***************************************************************************)
CreateUser(email, password_hash, first_name, last_name) ==
    LET r == create_user(users, sqlite_sequence, email, password_hash,
                         first_name, last_name, now)
    IN  /\ r.seq <= MaxUsers
        /\ users' = r.users
        /\ sqlite_sequence' = r.seq
        /\ last' = [op |-> "create_user", proc |-> "caller1", email |-> email,
                    first_name |-> first_name, last_name |-> last_name,
                    before |-> users, unique_violation |-> FALSE,
                    res |-> [ok |-> r.ok, val |-> r.val, exc |-> r.exc]]
        /\ UNCHANGED <<revoked_tokens, now, held, pc, revoke_called, products>>

ListUsers(limit, offset) ==
    /\ \E rows \in Orderings(users) :
           last' = [op |-> "list_users", limit |-> limit, offset |-> offset,
                    res |-> list_users(rows, limit, offset)]
    /\ UNCHANGED <<users, sqlite_sequence, revoked_tokens, now, held, pc,
                   revoke_called, products>>

CountUsers ==
    /\ last' = [op |-> "count_users", res |-> count_users(users)]
    /\ UNCHANGED <<users, sqlite_sequence, revoked_tokens, now, held, pc,
                   revoke_called, products>>

\* limit and offset arguments of list_users
Limits == { -1, 0, 1, 2 }

Offsets == { 0, 1, 3 }

NextListing ==
    \/ \E c \in StoreCreates : CreateUser(c[1], c[2], c[3], c[4])
    \/ \E id \in Ids : DeleteUser(id)
    \/ \E l \in Limits, o \in Offsets : ListUsers(l, o)
    \/ CountUsers
    \/ Tick

SpecListing == Init /\ [][NextListing]_vars

(***************************************************************************)
(* SpecFlows: each caller runs register -> login -> verify -> get_profile  *)
(* for an email of its own, the steps of the callers interleaved.  The     *)
(* register of a caller is two steps for the other callers: up to the      *)
(* SELECT of create_user, then from its INSERT on.                         *)
(***************************************************************************)
\* the email each caller registers and logs in with
FlowEmail(p) == IF p = "caller1" THEN <<"A", " ">> ELSE <<"b">>

FlowPassword == Rep("p", MinPasswordLen)

\* what a caller keeps of its flow: the results of the steps it has made
FlowStart ==
    [at |-> "inserting", registered |-> FALSE, user_id |-> 0,
     logged_in |-> FALSE, token |-> NoToken, late |-> FALSE,
     verified |-> FALSE, verified_user |-> NoSummary, profile |-> FALSE]

FlowRegisterCheck(p) ==
    /\ pc[p].at = "idle"
    /\ register_validate(FlowEmail(p), FlowPassword, <<"n">>, <<"l">>) = NoExc
    /\ create_user_check(users, lower(strip(FlowEmail(p)))) = NoExc
    /\ pc' = [pc EXCEPT ![p] = FlowStart]
    /\ UNCHANGED <<users, sqlite_sequence, revoked_tokens, now, held, last,
                   revoke_called, products>>

FlowRegisterInsert(p) ==
    /\ pc[p].at = "inserting"
    /\ \E salt \in Salts :
           LET c == create_user_insert(users, sqlite_sequence,
                                       lower(strip(FlowEmail(p))),
                                       hash_password(FlowPassword, salt),
                                       strip(<<"n">>), strip(<<"l">>), now)
               out == register_outcome(c)
           IN  /\ c.seq <= MaxUsers
               /\ users' = c.users
               /\ sqlite_sequence' = c.seq
               /\ pc' = [pc EXCEPT ![p] =
                             [@ EXCEPT !.at = "registered",
                                       !.registered = out.success,
                                       !.user_id = out.user.id]]
               /\ last' = [op |-> "register", email |-> FlowEmail(p),
                           password |-> FlowPassword, first_name |-> <<"n">>,
                           last_name |-> <<"l">>, out |-> out]
    /\ UNCHANGED <<revoked_tokens, now, held, revoke_called, products>>

FlowLogin(p) ==
    /\ pc[p].at = "registered"
    /\ LET out == login_user(users, FlowEmail(p), FlowPassword, now)
       IN  /\ pc' = [pc EXCEPT ![p] =
                         [@ EXCEPT !.at = "logged_in",
                                   !.logged_in = out.success,
                                   !.token = out.token]]
           /\ last' = [op |-> "login", email |-> FlowEmail(p),
                       password |-> FlowPassword, out |-> out]
    /\ UNCHANGED <<users, sqlite_sequence, revoked_tokens, now, held,
                   revoke_called, products>>

FlowVerify(p) ==
    /\ pc[p].at = "logged_in"
    /\ LET out == AuthenticationService_verify_token(
                      users, revoked_tokens, pc[p].token, now)
       IN  /\ pc' = [pc EXCEPT ![p] =
                         [@ EXCEPT !.at = "verified",
                                   !.late = (Len(pc[p].token) = 3
                                               /\ pc[p].token[2].exp <= now),
                                   !.verified = out.success,
                                   !.verified_user = out.user]]
           /\ last' = [op |-> "auth_verify", token |-> pc[p].token,
                       out |-> out]
    /\ UNCHANGED <<users, sqlite_sequence, revoked_tokens, now, held,
                   revoke_called, products>>

FlowProfile(p) ==
    /\ pc[p].at = "verified"
    /\ LET out == get_user_profile(users, pc[p].verified_user.id)
       IN  /\ pc' = [pc EXCEPT ![p] =
                         [@ EXCEPT !.at = "done", !.profile = out.success]]
           /\ last' = [op |-> "get_profile",
                       user_id |-> pc[p].verified_user.id, out |-> out]
    /\ UNCHANGED <<users, sqlite_sequence, revoked_tokens, now, held,
                   revoke_called, products>>

NextFlows ==
    \/ \E p \in Procs : FlowRegisterCheck(p)
    \/ \E p \in Procs : FlowRegisterInsert(p)
    \/ \E p \in Procs : FlowLogin(p)
    \/ \E p \in Procs : FlowVerify(p)
    \/ \E p \in Procs : FlowProfile(p)
    \/ Tick

SpecFlows == Init /\ [][NextFlows]_vars

(***************************************************************************)
(* Properties.                                                             *)
(***************************************************************************)
\* a token string that decodes, with a good signature, before its expiry,
\* typed "access"
WellFormedNow(token) ==
    /\ jwt_decode(token, now).ok
    /\ jwt_decode(token, now).val.type = "access"

\* C1 (SpecToken): once revoke_token has been called with a token, every
\* verify_token of that token on the same JWTService fails, whatever was
\* called in between, also for a token that is unexpired and well signed.
C1_RevokedTokenNeverVerifies ==
    /\ \A t \in revoke_called :
           ~JWTService_verify_token(t, revoked_tokens, now).ok
    /\ (last.op = "verify_token" /\ last.token \in revoke_called)
           => ~last.res.ok

\* C1 witness: verify_token has just rejected a revoked token that is
\* unexpired, well signed and typed "access".
C1_Witness ==
    /\ last.op = "verify_token"
    /\ last.token \in revoke_called
    /\ WellFormedNow(last.token)
    /\ ~last.res.ok

\* C2 (Spec): a register with valid arguments fails only because the email
\* is taken; after a successful register, login with the same email and
\* password succeeds, its token verifies, and the token's user_id is the id
\* given to the registered user.
C2_RegisterLoginVerify ==
    (last.op = "register"
        /\ register_validate(last.email, last.password, last.first_name,
                             last.last_name) = NoExc)
    => /\ last.out.success
          \/ last.out.message = <<"User with this email already exists">>
       /\ last.out.success =>
            LET lg == login_user(users, last.email, last.password, now)
                vf == AuthenticationService_verify_token(
                          users, revoked_tokens, lg.token, now)
            IN  /\ lg.success
                /\ lg.user.id = last.out.user.id
                /\ vf.success
                /\ vf.token_payload.user_id = last.out.user.id
                /\ vf.user.id = last.out.user.id

\* C2 witness: a registration whose email needed strip() and lower() has
\* just succeeded.
C2_Witness ==
    /\ last.op = "register"
    /\ last.out.success
    /\ last.email = <<"A", " ">>
    /\ last.out.user.email = <<"a">>

Named(email) == { u \in users : u.email = lower(strip(email)) }

TokenVerificationFails(token) ==
    /\ JWTToken(token).ok
    /\ ~JWTService_verify_token(token, revoked_tokens, now).ok

\* C7 (SpecRevocation), as claimed: when verify_token of the Authentication
\* Service has failed because the token was rejected, its message is the
\* message returned for every other token that is rejected.
C7_OneMessageForEveryRejection ==
    (last.op = "auth_verify" /\ JWTToken(last.token).ok /\ ~last.out.success
        /\ last.out.message # <<"User not found">>)
    => \A t \in Presentable :
           TokenVerificationFails(t)
           => AuthenticationService_verify_token(users, revoked_tokens, t,
                                                 now).message
                = last.out.message

\* C8 (Spec): verify_token of the Authentication Service does not succeed
\* for a token whose user_id names no stored user, also when the token is
\* unexpired, unrevoked and well signed.
C8_DeletedUserTokenRejected ==
    /\ (last.op = "auth_verify" /\ last.out.success)
           => SelectById(users, last.token[2].user_id) # {}
    /\ \A t \in Presentable :
           (Len(t) = 3 /\ SelectById(users, t[2].user_id) = {})
           => ~AuthenticationService_verify_token(users, revoked_tokens, t,
                                                  now).success

\* C8 witness: the token of a login, unexpired and well signed, was just
\* refused because its user has been deleted.
C8_Witness ==
    /\ last.op = "auth_verify"
    /\ held.by = "login"
    /\ last.token = held.tok
    /\ WellFormedNow(held.tok)
    /\ held.tok \notin revoked_tokens
    /\ SelectById(users, held.tok[2].user_id) = {}
    /\ ~last.out.success
    /\ last.out.message = <<"User not found">>

C10_RevokedRaisesInvalidTokenError ==
    (last.op = "verify_token" /\ last.token \in revoked_tokens)
    => IsInstance(last.res.exc, "InvalidTokenError")

\* C3 (SpecStore), as claimed: no two stored users have emails that are
\* equal when compared without regard to case.
C3_EmailUniqueIgnoringCase ==
    \A u1, u2 \in users :
        u1.id # u2.id => lower(u1.email) # lower(u2.email)

\* C4 (SpecStore), as claimed: a create_user whose INSERT is rejected by the
\* unique index raises UserAlreadyExistsError.
C4_RaceLoserRaisesAlreadyExists ==
    (last.op = "create_user" /\ last.unique_violation)
    => IsInstance(last.res.exc, "UserAlreadyExistsError")

\* C11 (SpecToken): verify_token looks the token up in revoked_tokens before
\* it decodes it: a revoked token that is also expired, wrongly signed or
\* undecodable is rejected with "Token has been revoked", never with
\* TokenExpiredError and never with the message of the decoding failure.
C11_RevocationCheckedFirst ==
    /\ \A t \in revoked_tokens :
           LET r == JWTService_verify_token(t, revoked_tokens, now)
           IN  /\ ~r.ok
               /\ ~IsInstance(r.exc, "TokenExpiredError")
               /\ r.exc.msg = <<"Token verification failed: ",
                                "Token has been revoked">>
    /\ (last.op = "verify_token" /\ last.token \in revoked_tokens)
           => /\ ~last.res.ok
              /\ ~IsInstance(last.res.exc, "TokenExpiredError")
              /\ last.res.exc.msg[Len(last.res.exc.msg)]
                     = "Token has been revoked"

\* C11 witness: verify_token has just rejected, as revoked, a revoked token
\* whose decoding alone fails (expired, or not a token at all).
C11_Witness ==
    /\ last.op = "verify_token"
    /\ last.token \in revoked_tokens
    /\ ~jwt_decode(last.token, now).ok
    /\ last.res.exc.msg = <<"Token verification failed: ",
                            "Token has been revoked">>

\* C12 (SpecProfile): update_user_profile called with a dict that has neither
\* the key first_name nor the key last_name (the empty dict included)
\* returns a failure and leaves the users table as it was.
C12_NoAllowedFieldFailsWithoutWrite ==
    (last.op = "update_profile"
        /\ last.updates.first_name.st = "absent"
        /\ last.updates.last_name.st = "absent")
    => /\ ~last.out.success
       /\ last.out.message = <<"No valid fields to update">>
       /\ users = last.before

\* C12 witness: update_user_profile of a stored user with a dict of email
\* and password_hash only has just failed.
C12_Witness ==
    /\ last.op = "update_profile"
    /\ SelectById(last.before, last.user_id) # {}
    /\ last.updates.email.st = "some"
    /\ last.updates.first_name.st = "absent"
    /\ last.updates.last_name.st = "absent"
    /\ ~last.out.success

\* C13 (SpecProfile): whatever dict update_user_profile is given, the table
\* after it has the rows of the table before it, each with its id, email,
\* password_hash and created_at, and every row but the addressed one equal
\* to what it was.
C13_ProfileUpdateWritesNamesOnly ==
    last.op = "update_profile"
    => /\ { u.id : u \in users } = { u.id : u \in last.before }
       /\ \A u \in last.before :
              \E v \in users :
                  /\ v.id = u.id
                  /\ v.email = u.email
                  /\ v.password_hash = u.password_hash
                  /\ v.created_at = u.created_at
                  /\ u.id # last.user_id => v = u

\* C13 witness: update_user_profile with a dict that mixes email,
\* password_hash, last_name and an unknown key has just changed the last
\* name of one of two stored users.
C13_Witness ==
    /\ last.op = "update_profile"
    /\ last.out.success
    /\ last.updates.email.st = "some"
    /\ last.updates.last_name.st = "some"
    /\ Cardinality(users) = 2
    /\ users # last.before

\* C14 (SpecStore), as claimed: create_user with an empty email, first_name
\* or last_name raises ValueError, and update_user of a stored user with a
\* dict that has no allowed field raises ValueError.
C14_ValidationRaisesValueError ==
    /\ (last.op = "create_user"
            /\ (IsBlank(last.email) \/ IsBlank(last.first_name)
                    \/ IsBlank(last.last_name)))
           => (~last.res.ok /\ IsInstance(last.res.exc, "ValueError"))
    /\ (last.op = "update_user"
            /\ SelectById(last.before, last.id) # {}
            /\ update_fields(last.updates) = {})
           => (~last.res.ok /\ IsInstance(last.res.exc, "ValueError"))

\* C15 (SpecStore), as claimed: a create_user that raises leaves the users
\* table as it was before the call.
C15_FailedCreateWritesNothing ==
    (last.op = "create_user" /\ ~last.res.ok)
    => /\ users = last.before
       /\ Cardinality(users) = Cardinality(last.before)

\* C16 (SpecListing): delete_user(id) returns True exactly when a row with
\* that id was stored when it was called and raises nothing; after it,
\* get_user_by_id(id) returns None, the other rows are as they were, and a
\* second delete_user(id) returns False.
C16_DeleteReturnsWhetherRowExisted ==
    [][\A id \in Ids :
          DeleteUser(id)
          => /\ last'.res.ok
             /\ last'.res.val = (SelectById(users, id) # {})
             /\ users' = { u \in users : u.id # id }
             /\ get_user_by_id(users', id) = Return(NoUser)
             /\ delete_user(users', sqlite_sequence', id).ok
             /\ delete_user(users', sqlite_sequence', id).val = FALSE]_vars

\* C16 witness: delete_user has been called again for an id that had been
\* given out and whose row an earlier delete_user removed, and has returned
\* False.
C16_Witness ==
    /\ last.op = "delete_user"
    /\ last.res.val = FALSE
    /\ last.id <= sqlite_sequence

Min(a, b) == IF a <= b THEN a ELSE b

Max(a, b) == IF a >= b THEN a ELSE b

\* C17 (SpecListing), as claimed: with N rows in the users table,
\* list_users(limit, offset), for limit and offset that are not negative,
\* returns min(limit, max(0, N - offset)) users, and count_users() returns
\* N.
C17_ListLengthAndCount ==
    /\ (last.op = "list_users" /\ last.limit >= 0 /\ last.offset >= 0)
           => /\ last.res.ok
              /\ Len(last.res.val)
                     = Min(last.limit,
                           Max(0, Cardinality(users) - last.offset))
    /\ last.op = "count_users"
           => (last.res.ok /\ last.res.val = Cardinality(users))

\* C18 (SpecToken): revoke_token of a token that is in revoked_tokens
\* returns True and leaves revoked_tokens as it was.
C18_RevokeIdempotent ==
    (last.op = "revoke_token" /\ last.token \in last.before)
    => /\ last.res = Return(TRUE)
       /\ revoked_tokens = last.before
       /\ revoke_token(last.token, revoked_tokens) = revoked_tokens

\* C18 witness: revoke_token has just been called with a token that an
\* earlier call had revoked.
C18_Witness ==
    /\ last.op = "revoke_token"
    /\ last.token \in last.before
    /\ last.res.val = TRUE

C20_ExpiryIsIssuedAtPlusTtl ==
    held.by = "create_token"
    => held.tok[2].exp
         = held.tok[2].iat
             + (IF held.delta.some THEN held.delta.secs
                ELSE SecondsPerHour * access_token_expire_hours)

\* C21 (SpecProfile): a register_user whose email, first_name or last_name
\* is blank, or whose password has fewer than 8 characters, returns the
\* failure of that check and leaves the users table and its AUTOINCREMENT
\* counter as they were.
C21_InvalidRegistrationTouchesNoStorage ==
    [][\A r \in Registrations :
          (/\ last'.op = "register"
           /\ last'.email = r[1]
           /\ register_validate(r[1], r[2], r[3], r[4]) # NoExc
           /\ Register(r[1], r[2], r[3], r[4]))
          => /\ ~last'.out.success
             /\ last'.out.message
                    = register_validate(r[1], r[2], r[3], r[4]).msg
             /\ users' = users
             /\ sqlite_sequence' = sqlite_sequence]_vars

\* C21 witness: a registration with a new email and a password of 7
\* characters has just been refused while another user is stored.
C21_Witness ==
    /\ last.op = "register"
    /\ ~last.out.success
    /\ Len(last.password) = MinPasswordLen - 1
    /\ ~IsBlank(last.email)
    /\ users # {}
    /\ SelectByEmail(users, lower(strip(last.email))) = {}

\* C22 (SpecProfile), as claimed: what register_user, get_user_profile and
\* update_user_profile return always has the keys success and message,
\* also when the User Store raised.
C22_UniformOutcomeShape ==
    last.op \in {"register", "get_profile", "update_profile"}
    => /\ {"success", "message"} \subseteq DOMAIN last.out
       /\ last.out.success \in BOOLEAN

\* the steps of its flow a caller has made
FlowPast(p, steps) == pc[p].at \in steps

\* C23 (SpecFlows): however the steps of the callers' flows interleave,
\* every register and login succeeds, the callers are given different ids,
\* and every verify made before the token's expiry succeeds and returns
\* the id and the email of the caller's own user, whose profile is then
\* found.
C23_InterleavedFlowsDoNotCross ==
    /\ \A p \in Procs :
           /\ FlowPast(p, {"registered", "logged_in", "verified", "done"})
                  => (pc[p].registered /\ pc[p].user_id > 0)
           /\ FlowPast(p, {"logged_in", "verified", "done"})
                  => (pc[p].logged_in
                          /\ pc[p].token[2].user_id = pc[p].user_id)
           /\ (FlowPast(p, {"verified", "done"}) /\ ~pc[p].late)
                  => /\ pc[p].verified
                     /\ pc[p].verified_user.id = pc[p].user_id
                     /\ pc[p].verified_user.email
                            = lower(strip(FlowEmail(p)))
           /\ (FlowPast(p, {"done"}) /\ ~pc[p].late) => pc[p].profile
    /\ \A p, q \in Procs :
           (p # q /\ FlowPast(p, {"registered", "logged_in", "verified", "done"})
                 /\ FlowPast(q, {"registered", "logged_in", "verified", "done"}))
           => pc[p].user_id # pc[q].user_id

\* C23 witness: both callers have finished their flows, the second to
\* register having logged in and verified before the first did.
C23_Witness ==
    /\ \A p \in Procs : pc[p].at = "done" /\ pc[p].profile
    /\ \E p, q \in Procs :
           /\ pc[p].user_id < pc[q].user_id
           /\ pc[q].token[2].iat < pc[p].token[2].iat

\* C24 (SpecToken): every step other than a revoke_token leaves
\* revoked_tokens as it was, and while the clock stands, a token that
\* verify_token accepted is rejected after a step only if that step was
\* revoke_token of this token.
C24_OnlyRevokeWritesRevocationSet ==
    [][/\ last'.op # "revoke_token" => revoked_tokens' = revoked_tokens
       /\ \A t \in Presentable :
              (/\ now' = now
               /\ JWTService_verify_token(t, revoked_tokens, now).ok
               /\ ~JWTService_verify_token(t, revoked_tokens', now').ok)
              => (last'.op = "revoke_token" /\ last'.token = t)]_vars

\* C24 witness: verify_token has just accepted a token, after
\* is_token_revoked and create_token calls, while another token is revoked.
C24_Witness ==
    /\ last.op = "verify_token"
    /\ last.res.ok
    /\ revoked_tokens # {}
    /\ last.token \notin revoked_tokens

(***************************************************************************)
(* The backend's auth stack (src/backend/src/auth): the Email value        *)
(* object, the User entity, SQLiteUserRepository, JWTService with access   *)
(* and refresh tokens, and the login, refresh, current-user and logout     *)
(* use cases.  users holds the rows of the repository's users table, held  *)
(* the token pair a client was last given.                                 *)
(***************************************************************************)
access_token_expire_minutes == 30

refresh_token_expire_days == 7

SecondsPerMinute == 60

SecondsPerDay == 86400

jwt_secret_key == "your-jwt-secret-key"

\* re.match(r'^[a-zA-Z0-9._%+-]+@[a-zA-Z0-9.-]+\.[a-zA-Z]{2,}$', value)
email_pattern_match(value) ==
    LET letters == { "a", "b", "x", "i", "o" }
        \* [a-zA-Z0-9._%+-] and [a-zA-Z0-9.-]
        local == letters \cup { ".", "_", "%", "+", "-" }
        domain == letters \cup { ".", "-" }
    IN  \E i, j \in 1..Len(value) :
            /\ 1 < i /\ i + 1 < j /\ j + 2 <= Len(value)
            /\ value[i] = "@" /\ value[j] = "."
            /\ \A k \in 1..(i - 1) : value[k] \in local
            /\ \A k \in (i + 1)..(j - 1) : value[k] \in domain
            /\ \A k \in (j + 1)..Len(value) : value[k] \in letters

Email_post_init(value) ==
    IF value = <<>>
    THEN Raise(<<>>, Exc("ValueError", <<"Email cannot be empty">>))
    ELSE IF ~email_pattern_match(value)
    THEN Raise(<<>>, Exc("ValueError", <<"Invalid email format">>))
    ELSE IF Len(value) > 254
    THEN Raise(<<>>, Exc("ValueError", <<"Email is too long">>))
    ELSE Return(value)

AccountEmails ==
    { <<"a", "@", "x", ".", "i", "o">>, <<"b", "@", "x", ".", "i", "o">>,
      <<"a", "@", "x">>, <<>> }

UserIds == { "user_1", "user_2" }

NoAccount ==
    [id |-> "", email |-> <<>>, hashed_password |-> <<>>,
     is_active |-> FALSE, is_verified |-> FALSE]

\* User(id=..., email=..., hashed_password=...): is_active defaults to True
User(id, email, hashed_password) ==
    [id |-> id, email |-> email, hashed_password |-> hashed_password,
     is_active |-> TRUE, is_verified |-> FALSE]

User_deactivate(user) == [user EXCEPT !.is_active = FALSE]

\* id TEXT PRIMARY KEY, email TEXT UNIQUE NOT NULL
SQLiteUserRepository_create_user(tbl, user) ==
    IF \E u \in tbl : u.id = user.id \/ u.email = user.email
    THEN [ok |-> FALSE, val |-> NoAccount,
          exc |-> Exc("ValueError",
                      <<"User with this email already exists">>),
          users |-> tbl]
    ELSE [ok |-> TRUE, val |-> user, exc |-> NoExc,
          users |-> tbl \cup {user}]

SQLiteUserRepository_get_user_by_id(tbl, user_id) ==
    IF \E u \in tbl : u.id = user_id
    THEN CHOOSE u \in tbl : u.id = user_id
    ELSE NoAccount

SQLiteUserRepository_get_user_by_email(tbl, email) ==
    IF \E u \in tbl : u.email = email
    THEN CHOOSE u \in tbl : u.email = email
    ELSE NoAccount

\* UPDATE users SET ... WHERE id = ?
SQLiteUserRepository_update_user(tbl, user) ==
    { IF u.id = user.id THEN user ELSE u : u \in tbl }

\* BCryptPasswordService.verify_password: bcrypt.checkpw
PasswordService_verify_password(password, hashed_password) ==
    verify_password(password, hashed_password).val

NoTokenPayload == [sub |-> "", email |-> <<>>, exp |-> 0, type |-> ""]

create_access_token(data, t) ==
    jwt_encode([sub |-> data.sub, email |-> data.email,
                exp |-> t + access_token_expire_minutes * SecondsPerMinute,
                type |-> "access"],
               jwt_secret_key)

create_refresh_token(data, t) ==
    jwt_encode([sub |-> data.sub, email |-> data.email,
                exp |-> t + refresh_token_expire_days * SecondsPerDay,
                type |-> "refresh"],
               jwt_secret_key)

create_token_pair(user_id, email, t) ==
    LET data == [sub |-> user_id, email |-> email]
    IN  [access_token |-> create_access_token(data, t),
         refresh_token |-> create_refresh_token(data, t),
         token_type |-> "bearer"]

\* jwt.decode(token, self.secret_key, algorithms=[self.algorithm]); a
\* failure is None, here [some |-> FALSE]
jwt_service_verify_token(token, t) ==
    IF Len(token) # 3 THEN [some |-> FALSE, payload |-> NoTokenPayload]
    ELSE IF token[3] # jwt_secret_key
    THEN [some |-> FALSE, payload |-> NoTokenPayload]
    ELSE IF token[2].exp <= t
    THEN [some |-> FALSE, payload |-> NoTokenPayload]
    ELSE [some |-> TRUE, payload |-> token[2]]

verify_access_token_untyped(token, t) == jwt_service_verify_token(token, t)

verify_access_token(token, t) ==
    LET payload == jwt_service_verify_token(token, t)
    IN  IF payload.some /\ payload.payload.type = "access"
        THEN payload
        ELSE [some |-> FALSE, payload |-> NoTokenPayload]

verify_refresh_token(token, t) ==
    LET payload == jwt_service_verify_token(token, t)
    IN  IF payload.some /\ payload.payload.type = "refresh"
        THEN payload
        ELSE [some |-> FALSE, payload |-> NoTokenPayload]

NoTokens == [access_token |-> NoToken, refresh_token |-> NoToken,
             token_type |-> ""]

LoginUserUseCase_execute(tbl, email, password, t) ==
    LET email_obj == Email_post_init(email)
        user == SQLiteUserRepository_get_user_by_email(tbl, email)
    IN  IF ~email_obj.ok THEN Raise(NoTokens, email_obj.exc)
        ELSE IF user = NoAccount
        THEN Raise(NoTokens, Exc("ValueError", <<"Invalid credentials">>))
        ELSE IF ~user.is_active
        THEN Raise(NoTokens, Exc("ValueError", <<"Account is deactivated">>))
        ELSE IF ~PasswordService_verify_password(password,
                                                 user.hashed_password)
        THEN Raise(NoTokens, Exc("ValueError", <<"Invalid credentials">>))
        ELSE Return(create_token_pair(user.id, user.email, t))

RefreshTokenUseCase_execute(tbl, refresh_token, t) ==
    LET payload == verify_refresh_token(refresh_token, t)
        user == SQLiteUserRepository_get_user_by_id(tbl, payload.payload.sub)
    IN  IF ~payload.some
        THEN Raise(NoTokens, Exc("ValueError", <<"Invalid refresh token">>))
        ELSE IF user = NoAccount \/ ~user.is_active
        THEN Raise(NoTokens,
                   Exc("ValueError", <<"User not found or inactive">>))
        ELSE Return(create_token_pair(user.id, user.email, t))

GetCurrentUserUseCase_execute(tbl, access_token, t) ==
    LET payload == verify_access_token(access_token, t)
        user == SQLiteUserRepository_get_user_by_id(tbl, payload.payload.sub)
    IN  IF ~payload.some
        THEN Raise(NoAccount, Exc("ValueError", <<"Invalid access token">>))
        ELSE IF user = NoAccount \/ ~user.is_active
        THEN Raise(NoAccount,
                   Exc("ValueError", <<"User not found or inactive">>))
        ELSE Return(user)

\* self.jwt_service.validate_token(token): JWTService has no such method,
\* the AttributeError is caught by "except Exception" and raised again as
\* a ValueError; no line of the use case writes a revocation set
LogoutUserUseCase_execute(token) ==
    Raise(<<>>,
          Exc("ValueError",
              <<"Logout failed: ",
                "'JWTService' object has no attribute 'validate_token'">>))

\* @router.post("/logout"): takes no token and answers with a message
logout == Return(<<"Logged out successfully">>)

\* the tokens a client can present: the pair it holds, each with another
\* key's signature, and a string that is no token
PresentableTokens ==
    IF held.tok = NoToken THEN { <<"garbage">> }
    ELSE { held.tok, held.refresh,
           jwt_encode(held.tok[2], "other_key"), <<"garbage">> }

SaveUser(id, email, password, salt) ==
    /\ Cardinality(users) < MaxUsers
    /\ Email_post_init(email).ok
    /\ LET r == SQLiteUserRepository_create_user(
                    users, User(id, email, hash_password(password, salt)))
       IN  /\ users' = r.users
           /\ last' = [op |-> "create_user", ok |-> r.ok, exc |-> r.exc,
                       id |-> id, email |-> email]
    /\ UNCHANGED <<sqlite_sequence, revoked_tokens, now, held, pc,
                   revoke_called, products>>

Deactivate(id) ==
    /\ \E u \in users : u.id = id /\ u.is_active
    /\ LET user == SQLiteUserRepository_get_user_by_id(users, id)
       IN  /\ users' = SQLiteUserRepository_update_user(
                           users, User_deactivate(user))
           /\ last' = [op |-> "deactivate", ok |-> TRUE, exc |-> NoExc,
                       id |-> id]
    /\ UNCHANGED <<sqlite_sequence, revoked_tokens, now, held, pc,
                   revoke_called, products>>

LoginUseCase(email, password) ==
    /\ LET r == LoginUserUseCase_execute(users, email, password, now)
       IN  /\ last' = [op |-> "login", ok |-> r.ok, exc |-> r.exc,
                       email |-> email, password |-> password]
           /\ held' = IF r.ok
                      THEN [tok |-> r.val.access_token,
                            refresh |-> r.val.refresh_token,
                            by |-> "login"]
                      ELSE held
    /\ UNCHANGED <<users, sqlite_sequence, revoked_tokens, now, pc,
                   revoke_called, products>>

RefreshUseCase(token) ==
    /\ LET r == RefreshTokenUseCase_execute(users, token, now)
       IN  /\ last' = [op |-> "refresh", ok |-> r.ok, exc |-> r.exc,
                       token |-> token]
           /\ held' = IF r.ok
                      THEN [tok |-> r.val.access_token,
                            refresh |-> r.val.refresh_token,
                            by |-> "refresh"]
                      ELSE held
    /\ UNCHANGED <<users, sqlite_sequence, revoked_tokens, now, pc,
                   revoke_called, products>>

GetCurrentUser(token) ==
    /\ LET r == GetCurrentUserUseCase_execute(users, token, now)
       IN  last' = [op |-> "get_current_user", ok |-> r.ok, exc |-> r.exc,
                    token |-> token, user |-> r.val]
    /\ UNCHANGED <<users, sqlite_sequence, revoked_tokens, now, held, pc,
                   revoke_called, products>>

LogoutUseCase(token) ==
    /\ LET r == LogoutUserUseCase_execute(token)
       IN  last' = [op |-> "logout_use_case", ok |-> r.ok, exc |-> r.exc,
                    token |-> token]
    /\ UNCHANGED <<users, sqlite_sequence, revoked_tokens, now, held, pc,
                   revoke_called, products>>

\* POST /logout by a client whose Authorization header carries token
Logout(token) ==
    /\ last' = [op |-> "logout", ok |-> logout.ok, exc |-> logout.exc,
                token |-> token]
    /\ UNCHANGED <<users, sqlite_sequence, revoked_tokens, now, held, pc,
                   revoke_called, products>>

NextSession ==
    \/ \E id \in UserIds, e \in AccountEmails,
          p \in { <<"p", "1">>, <<"p", "2">> },
          s \in Salts : SaveUser(id, e, p, s)
    \/ \E id \in UserIds : Deactivate(id)
    \/ \E e \in AccountEmails, p \in { <<"p", "1">>, <<"p", "2">> } :
           LoginUseCase(e, p)
    \/ \E t \in PresentableTokens : RefreshUseCase(t)
    \/ \E t \in PresentableTokens : GetCurrentUser(t)
    \/ \E t \in PresentableTokens : LogoutUseCase(t)
    \/ \E t \in PresentableTokens : Logout(t)
    \/ Tick

SpecSession == Init /\ [][NextSession]_vars

(***************************************************************************)
(* The products domain (src/backend/src/products): the Stock value        *)
(* object, the Product entity's stock and status methods, and the create, *)
(* update and update-stock use cases over a ProductRepository.  products  *)
(* holds the rows of the repository, sqlite_sequence the last id it gave. *)
(* Of a product the name, price, stock and status are kept; description,  *)
(* category, tags and images are held at one valid value throughout.      *)
(***************************************************************************)
default_low_stock_threshold == 10

NoStock == [quantity |-> 0, reserved |-> 0, low_stock_threshold |-> 0]

\* Stock(quantity=..., reserved=..., low_stock_threshold=...) with its
\* __post_init__
Stock(quantity, reserved, low_stock_threshold) ==
    IF quantity < 0
    THEN Raise(NoStock,
               Exc("ValueError", <<"Stock quantity cannot be negative">>))
    ELSE IF reserved < 0
    THEN Raise(NoStock,
               Exc("ValueError", <<"Reserved quantity cannot be negative">>))
    ELSE IF reserved > quantity
    THEN Raise(NoStock,
               Exc("ValueError",
                   <<"Reserved quantity cannot exceed available quantity">>))
    ELSE IF low_stock_threshold < 0
    THEN Raise(NoStock,
               Exc("ValueError", <<"Low stock threshold cannot be negative">>))
    ELSE Return([quantity |-> quantity, reserved |-> reserved,
                 low_stock_threshold |-> low_stock_threshold])

available(stock) == stock.quantity - stock.reserved

can_reserve(stock, quantity) == quantity > 0 /\ quantity <= available(stock)

reserve_unchecked(stock, quantity) ==
    Return([stock EXCEPT !.reserved = stock.reserved + quantity])

reserve(stock, quantity) ==
    IF ~can_reserve(stock, quantity)
    THEN Raise(NoStock,
               Exc("ValueError",
                   <<"Cannot reserve ", quantity, " units. Available: ",
                     available(stock)>>))
    ELSE Stock(stock.quantity, stock.reserved + quantity,
               stock.low_stock_threshold)

release_reservation(stock, quantity) ==
    IF quantity > stock.reserved
    THEN Raise(NoStock,
               Exc("ValueError",
                   <<"Cannot release ", quantity, " units. Reserved: ",
                     stock.reserved>>))
    ELSE Stock(stock.quantity, stock.reserved - quantity,
               stock.low_stock_threshold)

NoProduct == [id |-> 0, name |-> <<>>, price |-> 0, stock |-> NoStock,
              status |-> ""]

\* ProductStatus(value)
ProductStatus(value) ==
    IF value \in { "draft", "active", "inactive", "discontinued" }
    THEN Return(value)
    ELSE Raise("", Exc("ValueError",
                       <<"'", value, "' is not a valid ProductStatus">>))

update_stock(product, new_stock) == [product EXCEPT !.stock = new_stock]

activate(product) ==
    IF product.status = "discontinued"
    THEN Raise(NoProduct,
               Exc("ValueError", <<"Cannot activate discontinued product">>))
    ELSE Return([product EXCEPT !.status = "active"])

deactivate(product) == Return([product EXCEPT !.status = "inactive"])

discontinue(product) == Return([product EXCEPT !.status = "discontinued"])

\* ProductRepository.find_all(ProductFilters(search_term=name), ...)
\* with name LIKE '%search_term%'
find_all(tbl, search_term) ==
    { p \in tbl :
        \E i \in 1..(Len(p.name) + 1) :
            /\ i + Len(search_term) - 1 <= Len(p.name)
            /\ SubSeq(p.name, i, i + Len(search_term) - 1) = search_term }

\* ProductRepository.get_by_id
get_by_id(tbl, product_id) ==
    IF \E p \in tbl : p.id = product_id
    THEN CHOOSE p \in tbl : p.id = product_id
    ELSE NoProduct

\* ProductRepository.save: a product without id is given the next one, a
\* product with an id replaces the row of that id
save(tbl, seq, product) ==
    IF product.id = 0
    THEN [val |-> [product EXCEPT !.id = seq + 1],
          products |-> tbl \cup { [product EXCEPT !.id = seq + 1] },
          seq |-> seq + 1]
    ELSE [val |-> product,
          products |-> { IF p.id = product.id THEN product ELSE p : p \in tbl },
          seq |-> seq]

\* the outcome of a use case: the result or the exception, and the table
Saved(r, tbl, seq) ==
    [ok |-> r.ok, val |-> r.val, exc |-> r.exc, products |-> tbl, seq |-> seq]

ProductName(value) ==
    IF strip(value) = <<>>
    THEN Raise(<<>>, Exc("ValueError", <<"Product name cannot be empty">>))
    ELSE IF Len(strip(value)) < 2
    THEN Raise(<<>>, Exc("ValueError",
                         <<"Product name must be at least 2 characters">>))
    ELSE IF Len(value) > 255
    THEN Raise(<<>>, Exc("ValueError",
                         <<"Product name cannot exceed 255 characters">>))
    ELSE Return(strip(value))

CreateProductUseCase_execute(tbl, seq, request) ==
    LET name == ProductName(request.name)
        stock == Stock(request.stock, 0, request.low_stock_threshold)
    IN  IF request.price <= 0
        THEN Saved(Raise(NoProduct,
                         Exc("ValueError",
                             <<"Product price must be greater than zero">>)),
                   tbl, seq)
        ELSE IF request.stock < 0
        THEN Saved(Raise(NoProduct,
                         Exc("ValueError",
                             <<"Product stock cannot be negative">>)),
                   tbl, seq)
        ELSE IF find_all(tbl, request.name) # {}
        THEN Saved(Raise(NoProduct,
                         Exc("ProductAlreadyExistsError",
                             <<"Product with name '", request.name,
                               "' already exists">>)),
                   tbl, seq)
        ELSE IF ~name.ok THEN Saved(Raise(NoProduct, name.exc), tbl, seq)
        ELSE IF ~stock.ok THEN Saved(Raise(NoProduct, stock.exc), tbl, seq)
        ELSE LET s == save(tbl, seq,
                           [id |-> 0, name |-> name.val,
                            price |-> request.price, stock |-> stock.val,
                            status |-> "active"])
             IN  Saved(Return(s.val), s.products, s.seq)

\* the steps of UpdateProductUseCase.execute in their order: price, stock,
\* status; each takes the product the steps before it left
update_price(r, request) ==
    IF ~r.ok \/ ~request.price.some THEN r
    ELSE IF request.price.v <= 0
    THEN Raise(NoProduct,
               Exc("ValueError", <<"Product price must be greater than zero">>))
    ELSE Return([r.val EXCEPT !.price = request.price.v])

update_request_stock(r, request) ==
    IF ~r.ok \/ ~request.stock.some THEN r
    ELSE IF request.stock.v < 0
    THEN Raise(NoProduct,
               Exc("ValueError", <<"Product stock cannot be negative">>))
    ELSE LET \* request.low_stock_threshold or 10
             threshold ==
                 IF request.low_stock_threshold.some
                        /\ request.low_stock_threshold.v # 0
                 THEN request.low_stock_threshold.v
                 ELSE default_low_stock_threshold
             new_stock == Stock(request.stock.v, 0, threshold)
         IN  IF ~new_stock.ok THEN Raise(NoProduct, new_stock.exc)
             ELSE Return(update_stock(r.val, new_stock.val))

update_status(r, request) ==
    IF ~r.ok \/ ~request.status.some THEN r
    ELSE LET status == ProductStatus(request.status.v)
         IN  IF ~status.ok THEN Raise(NoProduct, status.exc)
             ELSE IF status.val = "active" THEN activate(r.val)
             ELSE IF status.val = "inactive" THEN deactivate(r.val)
             ELSE IF status.val = "discontinued" THEN discontinue(r.val)
             ELSE r

UpdateProductUseCase_execute(tbl, seq, request) ==
    LET existing_product == get_by_id(tbl, request.product_id)
        updated_product ==
            update_status(
                update_request_stock(
                    update_price(Return(existing_product), request),
                    request),
                request)
    IN  IF existing_product = NoProduct
        THEN Saved(Raise(NoProduct,
                         Exc("ProductNotFoundError",
                             <<"Product with ID ", request.product_id,
                               " not found">>)),
                   tbl, seq)
        ELSE IF ~updated_product.ok THEN Saved(updated_product, tbl, seq)
        ELSE LET s == save(tbl, seq, updated_product.val)
             IN  Saved(Return(s.val), s.products, s.seq)

UpdateProductStockUseCase_execute(tbl, seq, product_id, new_stock) ==
    LET product == get_by_id(tbl, product_id)
        new_stock_obj == Stock(new_stock, 0, product.stock.low_stock_threshold)
    IN  IF new_stock < 0
        THEN Saved(Raise(NoProduct,
                         Exc("ValueError", <<"Stock cannot be negative">>)),
                   tbl, seq)
        ELSE IF product = NoProduct
        THEN Saved(Raise(NoProduct,
                         Exc("ProductNotFoundError",
                             <<"Product with ID ", product_id,
                               " not found">>)),
                   tbl, seq)
        ELSE IF ~new_stock_obj.ok
        THEN Saved(Raise(NoProduct, new_stock_obj.exc), tbl, seq)
        ELSE LET s == save(tbl, seq, update_stock(product, new_stock_obj.val))
             IN  Saved(Return(s.val), s.products, s.seq)

ProductIds == 1..(MaxProducts + 1)

\* the integers given to reserve and release_reservation, and the stock
\* quantities of requests
StockArgs == (0 - MaxStock - 1)..(MaxStock + 1)

CreateRequests ==
    [name : { <<"p", "c">>, <<"p", "c", "s">>, <<" ", "p">> },
     price : {0, 1}, stock : (-1)..MaxStock,
     low_stock_threshold : {-1, default_low_stock_threshold}]

\* a field that is None has some = FALSE
UpdateRequests ==
    [product_id : ProductIds,
     price : { [some |-> FALSE, v |-> 0], [some |-> TRUE, v |-> 0] },
     stock : { [some |-> FALSE, v |-> 0] }
                 \cup { [some |-> TRUE, v |-> n] : n \in (-1)..MaxStock },
     status : { [some |-> FALSE, v |-> ""] }
                  \cup { [some |-> TRUE, v |-> v] :
                            v \in { "draft", "active", "inactive",
                                    "discontinued", "sold" } },
     low_stock_threshold :
         { [some |-> FALSE, v |-> 0], [some |-> TRUE, v |-> 0] }]

CreateProduct(request) ==
    /\ sqlite_sequence < MaxProducts
    /\ LET r == CreateProductUseCase_execute(products, sqlite_sequence,
                                             request)
       IN  /\ products' = r.products
           /\ sqlite_sequence' = r.seq
           /\ last' = [op |-> "create_product", ok |-> r.ok, exc |-> r.exc,
                       before |-> NoProduct, after |-> r.val]
    /\ UNCHANGED <<users, revoked_tokens, now, held, pc, revoke_called>>

\* a caller of the domain reserves stock of a stored product:
\* product.update_stock(product.stock.reserve(quantity)), then save
Reserve(product_id, quantity) ==
    /\ get_by_id(products, product_id) # NoProduct
    /\ LET product == get_by_id(products, product_id)
           r == reserve(product.stock, quantity)
           s == save(products, sqlite_sequence,
                     update_stock(product, r.val))
       IN  /\ products' = IF r.ok THEN s.products ELSE products
           /\ last' = [op |-> "reserve", ok |-> r.ok, exc |-> r.exc,
                       before |-> product, quantity |-> quantity,
                       after |-> IF r.ok THEN s.val ELSE NoProduct]
    /\ UNCHANGED <<users, sqlite_sequence, revoked_tokens, now, held, pc,
                   revoke_called>>

ReleaseReservation(product_id, quantity) ==
    /\ get_by_id(products, product_id) # NoProduct
    /\ LET product == get_by_id(products, product_id)
           r == release_reservation(product.stock, quantity)
           s == save(products, sqlite_sequence,
                     update_stock(product, r.val))
       IN  /\ products' = IF r.ok THEN s.products ELSE products
           /\ last' = [op |-> "release_reservation", ok |-> r.ok,
                       exc |-> r.exc, before |-> product,
                       quantity |-> quantity,
                       after |-> IF r.ok THEN s.val ELSE NoProduct]
    /\ UNCHANGED <<users, sqlite_sequence, revoked_tokens, now, held, pc,
                   revoke_called>>

UpdateProduct(request) ==
    /\ LET r == UpdateProductUseCase_execute(products, sqlite_sequence,
                                             request)
       IN  /\ products' = r.products
           /\ last' = [op |-> "update_product", ok |-> r.ok, exc |-> r.exc,
                       before |-> get_by_id(products, request.product_id),
                       after |-> r.val]
    /\ UNCHANGED <<users, sqlite_sequence, revoked_tokens, now, held, pc,
                   revoke_called>>

UpdateProductStock(product_id, new_stock) ==
    /\ LET r == UpdateProductStockUseCase_execute(products, sqlite_sequence,
                                                  product_id, new_stock)
       IN  /\ products' = r.products
           /\ last' = [op |-> "update_product_stock", ok |-> r.ok,
                       exc |-> r.exc,
                       before |-> get_by_id(products, product_id),
                       after |-> r.val]
    /\ UNCHANGED <<users, sqlite_sequence, revoked_tokens, now, held, pc,
                   revoke_called>>

NextStock ==
    \/ \E request \in CreateRequests : CreateProduct(request)
    \/ \E id \in ProductIds, q \in StockArgs : Reserve(id, q)
    \/ \E id \in ProductIds, q \in StockArgs : ReleaseReservation(id, q)

SpecStock == Init /\ [][NextStock]_vars

NextProducts ==
    \/ \E request \in CreateRequests : CreateProduct(request)
    \/ \E id \in ProductIds, q \in StockArgs : Reserve(id, q)
    \/ \E request \in UpdateRequests : UpdateProduct(request)
    \/ \E id \in ProductIds, n \in (-1)..MaxStock : UpdateProductStock(id, n)

SpecProducts == Init /\ [][NextProducts]_vars

\* C25 (SpecSession): after a logout that succeeded for a client presenting
\* an access token, the next get-current-user request presenting the same
\* token is rejected.
C25_LoggedOutTokenRejected ==
    [][(/\ last.op \in {"logout", "logout_use_case"}
        /\ last.ok
        /\ last'.op = "get_current_user"
        /\ last'.token = last.token)
       => ~last'.ok]_vars

\* C26 (SpecSession): a token issued with type "refresh" is never accepted
\* by the access-token verification of the current-user use case, and a
\* token issued with type "access" is never accepted by the refresh-token
\* verification of the refresh use case, whatever its signature and expiry.
C26_TokenKindsNotCrossUsed ==
    /\ (/\ last.op = "get_current_user"
        /\ Len(last.token) = 3
        /\ last.token[2].type = "refresh") => ~last.ok
    /\ (/\ last.op = "refresh"
        /\ Len(last.token) = 3
        /\ last.token[2].type = "access") => ~last.ok
    /\ \A t \in PresentableTokens :
           Len(t) = 3
           => /\ t[2].type = "refresh" => ~verify_access_token(t, now).some
              /\ t[2].type = "access" => ~verify_refresh_token(t, now).some

\* C26 witness: the current-user use case has just rejected the refresh
\* token of the pair the client holds, which is signed with the service's
\* key, has not expired and names an active user, and whose access token
\* the service accepts.
C26_Witness ==
    /\ last.op = "get_current_user"
    /\ ~last.ok
    /\ held.tok # NoToken
    /\ last.token = held.refresh
    /\ jwt_service_verify_token(last.token, now).some
    /\ verify_access_token(held.tok, now).some
    /\ \E u \in users : u.id = last.token[2].sub /\ u.is_active

\* C27 (SpecSession): a LoginUserUseCase call whose password is not the
\* password of an account with the given email fails exactly as the same
\* call fails when no account has that email.
C27_WrongPasswordSameFailure ==
    (/\ last.op = "login"
     /\ \A u \in users :
            u.email = last.email
            => ~PasswordService_verify_password(last.password,
                                                u.hashed_password))
    => /\ ~last.ok
       /\ last.exc = LoginUserUseCase_execute({}, last.email,
                                              last.password, now).exc

\* C28 (SpecStock): through every sequence of reserve and
\* release_reservation calls with any integer arguments, every stored
\* Stock has 0 <= reserved <= quantity; a call that succeeds leaves the
\* quantity as it was, and a call whose arithmetic result would leave
\* 0..quantity fails with a ValueError and changes nothing.
C28_StockStaysWithinQuantity ==
    /\ \A p \in products :
           /\ 0 <= p.stock.reserved
           /\ p.stock.reserved <= p.stock.quantity
           /\ available(p.stock) >= 0
    /\ last.op \in {"reserve", "release_reservation"}
       => LET result == IF last.op = "reserve"
                        THEN last.before.stock.reserved + last.quantity
                        ELSE last.before.stock.reserved - last.quantity
          IN  /\ last.ok
                  => /\ last.after.stock.quantity
                            = last.before.stock.quantity
                     /\ last.after.stock.reserved = result
                     /\ last.after \in products
              /\ ~last.ok
                  => /\ last.exc.cls = "ValueError"
                     /\ last.before \in products
              /\ result \notin 0..last.before.stock.quantity => ~last.ok

\* C28 witness: release_reservation with a negative argument has just been
\* rejected for a stock with units reserved, because the reserved quantity
\* it would give exceeds the quantity.
C28_Witness ==
    /\ last.op = "release_reservation"
    /\ ~last.ok
    /\ last.quantity < 0
    /\ last.before.stock.reserved > 0
    /\ last.before.stock.reserved - last.quantity
           > last.before.stock.quantity

\* the product after the status updates of UpdateProductUseCase are asked
\* for in turn; an update that raises leaves the product as it was
RECURSIVE StatusUpdates(_, _)
StatusUpdates(product, statuses) ==
    IF statuses = <<>> THEN product
    ELSE LET r == update_status(
                      Return(product),
                      [status |-> [some |-> TRUE, v |-> Head(statuses)]])
         IN  StatusUpdates(IF r.ok THEN r.val ELSE product, Tail(statuses))

\* C29 (SpecProducts): from a stored product whose status is
\* "discontinued", no sequence of at most MaxStatusUpdates status updates
\* to "active", "inactive" or "discontinued" (Product.activate, deactivate
\* and discontinue, as UpdateProductUseCase calls them) gives a product
\* whose status is "active".
C29_DiscontinuedNeverActiveAgain ==
    \A p \in products :
        p.status = "discontinued"
        => \A n \in 0..MaxStatusUpdates :
               \A statuses \in
                      [1..n -> {"active", "inactive", "discontinued"}] :
                   StatusUpdates(p, statuses).status # "active"

====
